---- MODULE Spec2Model ----
(***************************************************************************)
(* Model of the Turkey Weather Reporter: src/app.py and src/services.      *)
(*                                                                         *)
(* Text is a sequence of one-character tokens.  "LF", "CR", "SP" and "TAB" *)
(* stand for line feed, carriage return, space and tab; "a" stands for any *)
(* alphanumeric character, "!" for a character no sanitizer or pattern     *)
(* mentions.  Exceptions are records [kind, msg]; kind "none" is "nothing  *)
(* raised".                                                                *)
(***************************************************************************)
EXTENDS Integers, Sequences, FiniteSets, TLC

VARIABLES
    \* one sanitizer call
    san_fn, san_in, san_out,
    \* WeatherService.get_current_weather
    max_retries, w_pc, safe_query, attempt, requests, last_exception,
    sleeps, w_result, w_exc,
    \* DatabaseService.save_weather_report
    d_pc, document, next_id, store, store_before, inserts, d_exc, d_cause,
    \* ReportService.build_daily_report
    r_city, r_data, clock, reports, r_exc,
    \* EmailService.send_report
    e_pc, e_to, e_msg, smtp_log, smtp_results, e_exc, e_pending,
    \* app.main / app.run
    m_pc, city, to_email, weather_data, report_text, stages, m_exc, printed,
    last_input

sanVars    == <<san_fn, san_in, san_out>>
fetchVars  == <<max_retries, w_pc, safe_query, attempt, requests,
                last_exception, sleeps, w_result, w_exc>>
saveVars   == <<d_pc, document, next_id, store, store_before, inserts, d_exc, d_cause>>
reportVars == <<r_city, r_data, clock, reports, r_exc>>
emailVars  == <<e_pc, e_to, e_msg, smtp_log, smtp_results, e_exc, e_pending>>
mainVars   == <<m_pc, city, to_email, weather_data, report_text, stages,
                m_exc, printed, last_input>>
vars == <<sanVars, fetchVars, saveVars, reportVars, emailVars, mainVars>>

----------------------------------------------------------------------------
(* Bounds of the model *)

MaxTextLen == 3
MaxAddrLen == 6
MaxRetries == 4
MaxSaveCalls == 2
MaxClock == 2

----------------------------------------------------------------------------
(* Text *)

LineBreaks == {"LF", "CR"}
Whitespace == {"SP", "TAB", "LF", "CR"}
Alnum == {"a"}

SeqsUpTo(S, n) == UNION {[1..k -> S] : k \in 0..n}

Contains(s, c) == \E i \in 1..Len(s) : s[i] = c

HasLineBreak(s) == \E i \in 1..Len(s) : s[i] \in LineBreaks

RECURSIVE Replace(_, _, _)
\* str.replace(c, r) for a one-character c; r is the replacement text
Replace(s, c, r) ==
    IF s = <<>> THEN <<>>
    ELSE (IF Head(s) = c THEN r ELSE <<Head(s)>>) \o Replace(Tail(s), c, r)

RECURSIVE LStrip(_)
LStrip(s) ==
    IF s # <<>> /\ Head(s) \in Whitespace THEN LStrip(Tail(s)) ELSE s

RECURSIVE RStrip(_)
RStrip(s) ==
    IF s # <<>> /\ s[Len(s)] \in Whitespace
    THEN RStrip(SubSeq(s, 1, Len(s) - 1)) ELSE s

\* str.strip()
Strip(s) == RStrip(LStrip(s))

NoExc == [kind |-> "none", msg |-> "none"]
Exc(k, m) == [kind |-> k, msg |-> m]

\* a Python value that is a str (s its text) or something else (None, a number)
Str(s) == [isstr |-> TRUE, s |-> s]
NonStr == [isstr |-> FALSE, s |-> <<>>]

----------------------------------------------------------------------------
(* The sanitizers *)

QueryKeep == {"SP", "-", "_", ","}

\* weather_service.sanitize_query
sanitize_query(query) ==
    LET cleaned == Strip(Replace(Replace(query, "LF", <<>>), "CR", <<>>))
    IN  SelectSeq(cleaned, LAMBDA ch : ch \in Alnum \/ ch \in QueryKeep)

\* report_service._sanitize_text
sanitize_text(text) ==
    Strip(Replace(Replace(text, "LF", <<"SP">>), "CR", <<"SP">>))

sanitize_header_StripOnly(value) ==
    IF ~value.isstr THEN <<>> ELSE Strip(value.s)

\* EmailService._sanitize_header: value is Str(s) or NonStr
sanitize_header(value) ==
    IF ~value.isstr THEN <<>>
    ELSE Strip(Replace(Replace(value.s, "LF", <<"SP">>), "CR", <<"SP">>))

\* EmailService._sanitize_body
sanitize_body(text) ==
    IF ~text.isstr THEN <<>>
    ELSE Strip(Replace(text.s, "CR", <<>>))

----------------------------------------------------------------------------
(* Weather payloads: the JSON object the API answers with.  Every group is  *)
(* absent, present but no mapping ("null"), or a mapping with some keys.    *)

MainKeys == {"temp", "feels_like", "temp_min", "temp_max", "humidity", "pressure"}
WindKeys == {"speed", "deg"}

AbsentGroup == [t |-> "absent", keys |-> {}, v |-> 0]
NullGroup == [t |-> "null", keys |-> {}, v |-> 0]
\* a mapping holding the keys ks, every one with the number v
Group(ks, v) == [t |-> "obj", keys |-> ks, v |-> v]

\* the description of the first weather entry: absent, a str, or another value
NoDesc == [present |-> FALSE, val |-> NonStr]
Desc(val) == [present |-> TRUE, val |-> val]

\* weather: absent, no list, [], [<scalar>], [{...}]
AbsentWeather == [t |-> "absent", first |-> "none", desc |-> NoDesc]
NullWeather == [t |-> "null", first |-> "none", desc |-> NoDesc]
EmptyWeather == [t |-> "list", first |-> "none", desc |-> NoDesc]
ScalarWeather == [t |-> "list", first |-> "scalar", desc |-> NoDesc]
EntryWeather(d) == [t |-> "list", first |-> "dict", desc |-> d]

Payload(m, wi, we) == [main |-> m, wind |-> wi, weather |-> we]

\* "key in data" for the top-level keys
HasKey(group) == group.t # "absent"

ClearSky == Desc(Str(<<"a">>))
FullPayload(v) == Payload(Group(MainKeys, v), Group(WindKeys, v), EntryWeather(ClearSky))

----------------------------------------------------------------------------
(* WeatherService.get_current_weather *)

DefaultMaxRetries == 3
\* retry_delay = 1.5 s, in tenths of a second
RetryDelay == 15

\* what requests.get gives: a raised exception, or a response with a status
\* and a body that is no JSON, JSON that is no object, or a JSON object
NonJsonBody == [t |-> "nonjson", data |-> Payload(AbsentGroup, AbsentGroup, AbsentWeather)]
ScalarBody == [t |-> "scalar", data |-> Payload(AbsentGroup, AbsentGroup, AbsentWeather)]
ObjBody(data) == [t |-> "obj", data |-> data]

TransportError == [raised |-> TRUE, status |-> 0, body |-> NonJsonBody]
Response(status, body) == [raised |-> FALSE, status |-> status, body |-> body]

FetchPayloads ==
    { FullPayload(20), FullPayload(21),
      Payload(Group(MainKeys, 20), AbsentGroup, EntryWeather(ClearSky)),
      Payload(NullGroup, Group(WindKeys, 20), EmptyWeather),
      Payload(Group(MainKeys, 20), Group(WindKeys, 20), AbsentWeather),
      Payload(AbsentGroup, Group(WindKeys, 20), EntryWeather(ClearSky)),
      Payload(AbsentGroup, AbsentGroup, AbsentWeather) }

Responses ==
    {TransportError, Response(404, NonJsonBody), Response(500, NonJsonBody),
     Response(200, NonJsonBody), Response(200, ScalarBody)}
    \cup {Response(200, ObjBody(p)) : p \in FetchPayloads}
    \cup {Response(600, ObjBody(FullPayload(20))), Response(600, NonJsonBody),
          Response(600, ObjBody(Payload(AbsentGroup, AbsentGroup, AbsentWeather)))}

\* requests.Response.ok: raise_for_status() raises for 400 <= status < 600
\* and for no other status
ResponseOk(resp) == ~(400 <= resp.status /\ resp.status < 600)

ClassifyResponse_MissingBoth(resp) ==
    IF resp.raised THEN Exc("Exception", "transport")
    ELSE IF ~ResponseOk(resp) THEN
        IF 400 <= resp.status /\ resp.status < 500
        THEN Exc("WeatherApiError", "client error")
        ELSE Exc("WeatherApiError", "server error")
    ELSE IF resp.body.t = "nonjson" THEN Exc("WeatherApiError", "invalid json")
    ELSE IF resp.body.t # "obj" THEN Exc("WeatherApiError", "response type")
    ELSE IF ~HasKey(resp.body.data.main) /\ ~HasKey(resp.body.data.weather)
        THEN Exc("WeatherApiError", "response structure")
    ELSE NoExc

\* the try block of one attempt: the exception it raises, NoExc on success
ClassifyResponse(resp) ==
    IF resp.raised THEN Exc("Exception", "transport")
    ELSE IF ~ResponseOk(resp) THEN
        IF 400 <= resp.status /\ resp.status < 500
        THEN Exc("WeatherApiError", "client error")
        ELSE Exc("WeatherApiError", "server error")
    ELSE IF resp.body.t = "nonjson" THEN Exc("WeatherApiError", "invalid json")
    ELSE IF resp.body.t # "obj" THEN Exc("WeatherApiError", "response type")
    ELSE IF ~HasKey(resp.body.data.main) \/ ~HasKey(resp.body.data.weather)
        THEN Exc("WeatherApiError", "response structure")
    ELSE NoExc

FetchedData_Defaulted(resp) ==
    [resp.body.data EXCEPT !.wind =
        IF HasKey(@) THEN @ ELSE Group(WindKeys, 0)]

\* "return data": the parsed body as it came
FetchedData(resp) == resp.body.data

MoreAttempts_OneMore(n) == n <= max_retries

\* whether range(1, max_retries + 1) holds an attempt after attempt n
MoreAttempts(n) == n < max_retries

RECURSIVE Pow2(_)
Pow2(n) == IF n <= 0 THEN 1 ELSE 2 * Pow2(n - 1)

BackoffDelay_NextExponent(n) == RetryDelay * Pow2(n)

\* delay = retry_delay * 2 ** (attempt - 1)
BackoffDelay(n) == RetryDelay * Pow2(n - 1)

ExhaustedError == Exc("WeatherApiError", "failed after max_retries attempts")

\* get_current_weather up to the loop: the query is sanitized, nothing sent
GetCurrentWeatherCall(q) ==
    /\ w_pc = "idle"
    /\ safe_query' = sanitize_query(q)
    /\ attempt' = 1
    /\ requests' = <<>>
    /\ last_exception' = NoExc
    /\ sleeps' = <<>>
    /\ w_result' = w_result
    /\ IF max_retries >= 1
       THEN w_pc' = "loop" /\ w_exc' = NoExc
       ELSE w_pc' = "raised" /\ w_exc' = ExhaustedError
    /\ UNCHANGED max_retries

\* one pass of the for loop: the request, its validation and the except arm
FetchAttempt(resp) ==
    /\ w_pc = "loop"
    /\ requests' = Append(requests, resp)
    /\ LET exc == ClassifyResponse(resp) IN
       IF exc = NoExc
       THEN /\ w_pc' = "returned"
            /\ w_result' = FetchedData(resp)
            /\ UNCHANGED <<attempt, last_exception, sleeps, w_exc>>
       ELSE /\ last_exception' = exc
            /\ IF MoreAttempts(attempt)
               THEN /\ sleeps' = Append(sleeps, BackoffDelay(attempt))
                    /\ attempt' = attempt + 1
                    /\ UNCHANGED <<w_pc, w_exc>>
               ELSE /\ w_pc' = "raised"
                    /\ w_exc' = ExhaustedError
                    /\ UNCHANGED <<attempt, sleeps>>
            /\ UNCHANGED w_result
    /\ UNCHANGED <<max_retries, safe_query>>


FetchIdle ==
    /\ w_pc = "idle"
    /\ safe_query = <<>>
    /\ attempt = 0
    /\ requests = <<>>
    /\ last_exception = NoExc
    /\ sleeps = <<>>
    /\ w_result = Payload(AbsentGroup, AbsentGroup, AbsentWeather)
    /\ w_exc = NoExc

Queries == {<<"a">>, <<"a", "LF", "a">>, <<"SP", "a", "!", ",", "a">>}


----------------------------------------------------------------------------
(* DatabaseService.save_weather_report *)

\* the value handed over as raw_data: a dict, or anything else
Dict(data) == [isdict |-> TRUE, data |-> data]
NonDict == [isdict |-> FALSE, data |-> Payload(AbsentGroup, AbsentGroup, AbsentWeather)]

NoDocument == [id |-> 0, city |-> <<>>, timestamp |-> 0, raw_data |-> NonDict]

\* what collection.insert_one does: it returns, raises AutoReconnect (the
\* connection dropped before or after the server applied the write), or
\* raises another PyMongoError; applied says whether the server stored it
InsertOk == [kind |-> "ok", applied |-> TRUE]
InsertDisconnect(applied) == [kind |-> "AutoReconnect", applied |-> applied]
InsertError == [kind |-> "PyMongoError", applied |-> FALSE]
\* an exception that is no PyMongoError (bson InvalidDocument, OverflowError
\* for an integer of more than 8 bytes): the document could not be encoded
InsertOther == [kind |-> "other", applied |-> FALSE]
InsertOutcomes ==
    {InsertOk, InsertDisconnect(TRUE), InsertDisconnect(FALSE), InsertError, InsertOther}

\* the exception of insert_one that no except arm of save_weather_report names
InsertUnwrapped == Exc("InvalidDocument", "cannot encode object")

StoredIds(st) == {doc.id : doc \in st}

\* the server refuses a second document with the _id of a stored one
InsertPossible(st, doc, outcome) ==
    outcome.kind = "ok" => doc.id \notin StoredIds(st)

InsertEffect(st, doc, outcome) ==
    IF outcome.applied THEN st \cup {doc} ELSE st

RetryDocument_Rebuilt(doc) == [doc EXCEPT !.id = next_id]

\* the retry inserts the same dict, which holds the _id the first
\* insert_one gave it
RetryDocument(doc) == doc

\* the failures of the first insert_one that the except AutoReconnect arm
\* catches
RetryOn(outcome) == outcome.kind = "AutoReconnect"

\* save_weather_report up to and including the first insert_one; d_cause is
\* the exception the raised DatabaseError is chained from
SaveFirstInsert(city_name, raw_data, outcome) ==
    /\ d_pc \in {"idle", "returned", "raised"}
    /\ next_id <= MaxSaveCalls
    /\ store_before' = store
    /\ IF ~raw_data.isdict
       THEN /\ d_pc' = "raised"
            /\ d_exc' = Exc("DatabaseError", "Weather data must be a dictionary.")
            /\ d_cause' = "none"
            /\ inserts' = <<>>
            /\ UNCHANGED <<document, next_id, store>>
       ELSE LET doc == [id |-> next_id, city |-> city_name,
                        timestamp |-> clock, raw_data |-> raw_data]
            IN  /\ InsertPossible(store, doc, outcome)
                /\ document' = doc
                /\ next_id' = next_id + 1
                /\ inserts' = <<outcome>>
                /\ store' = InsertEffect(store, doc, outcome)
                /\ IF outcome.kind = "ok"
                   THEN d_pc' = "returned" /\ d_exc' = NoExc /\ d_cause' = "none"
                   ELSE IF RetryOn(outcome)
                   THEN d_pc' = "retry" /\ d_exc' = NoExc /\ d_cause' = "none"
                   ELSE IF outcome.kind = "PyMongoError"
                   THEN /\ d_pc' = "raised"
                        /\ d_exc' = Exc("DatabaseError", "Failed to insert weather report.")
                        /\ d_cause' = outcome.kind
                   ELSE /\ d_pc' = "raised"
                        /\ d_exc' = InsertUnwrapped
                        /\ d_cause' = "none"

\* the except AutoReconnect arm: one more insert_one
SaveRetryInsert(outcome) ==
    /\ d_pc = "retry"
    /\ LET doc == RetryDocument(document) IN
       /\ InsertPossible(store, doc, outcome)
       /\ inserts' = Append(inserts, outcome)
       /\ store' = InsertEffect(store, doc, outcome)
    /\ IF outcome.kind = "ok"
       THEN d_pc' = "returned" /\ d_exc' = NoExc /\ d_cause' = "none"
       ELSE IF outcome.kind \in {"AutoReconnect", "PyMongoError"}
       THEN /\ d_pc' = "raised"
            /\ d_exc' = Exc("DatabaseError", "Database insert retry failed.")
            /\ d_cause' = outcome.kind
       ELSE /\ d_pc' = "raised"
            /\ d_exc' = InsertUnwrapped
            /\ d_cause' = "none"
    /\ UNCHANGED <<document, next_id, store_before>>

SaveIdle ==
    /\ d_pc = "idle"
    /\ document = NoDocument
    /\ next_id = 1
    /\ store = {}
    /\ store_before = {}
    /\ inserts = <<>>
    /\ d_exc = NoExc
    /\ d_cause = "none"

----------------------------------------------------------------------------
(* ReportService *)

RequiredMain == <<"temp", "feels_like", "temp_min", "temp_max", "humidity", "pressure">>

\* the first key of required_main that the mapping lacks, 0 if none
FirstMissing(group) ==
    IF \A i \in 1..Len(RequiredMain) : RequiredMain[i] \in group.keys THEN 0
    ELSE CHOOSE i \in 1..Len(RequiredMain) :
            /\ RequiredMain[i] \notin group.keys
            /\ \A j \in 1..(i - 1) : RequiredMain[j] \in group.keys

\* "key not in x" raises TypeError when x is None or a number
NotIterable == Exc("TypeError", "argument is not iterable")

\* ReportService._validate_required_fields: what it raises, NoExc if nothing
validate_required_fields(data) ==
    IF ~HasKey(data.main) THEN Exc("KeyError", "Missing 'main' section")
    ELSE IF data.main.t # "obj" THEN NotIterable
    ELSE IF FirstMissing(data.main) # 0
        THEN Exc("KeyError", RequiredMain[FirstMissing(data.main)])
    ELSE IF ~HasKey(data.wind) THEN Exc("KeyError", "Missing 'wind' section")
    ELSE IF data.wind.t # "obj" THEN NotIterable
    ELSE IF "speed" \notin data.wind.keys \/ "deg" \notin data.wind.keys
        THEN Exc("KeyError", "Missing wind fields")
    ELSE IF data.weather.t # "list" \/ data.weather.first = "none"
        THEN Exc("KeyError", "Missing 'weather' section")
    ELSE IF data.weather.first # "dict" THEN Exc("KeyError", "Malformed weather entry")
    ELSE NoExc

\* datetime.now().strftime(...): the clock reading as text
NowStr(now) == <<ToString(now)>>

\* f"{value}" of a number
Fmt(v) == <<ToString(v)>>

\* "-" * 40
Rule == <<"----------------------------------------">>

\* (the degree sign of the source's labels is left out of the tokens, and
\* "Yon" stands for the source's label with its o-umlaut)

ReportLines_StampedFooter(city_clean, description, data, now) ==
    << <<"WEATHER REPORT (Daily) - ">> \o NowStr(now),
       Rule,
       <<"City: ">> \o city_clean,
       <<"Condition: ">> \o description,
       <<"Temperature: ">> \o Fmt(data.main.v) \o <<"C">>,
       <<"Feels Like: ">> \o Fmt(data.main.v) \o <<"C">>,
       <<"Minimum / Maximum: ">> \o Fmt(data.main.v) \o <<"C / ">>
            \o Fmt(data.main.v) \o <<"C">>,
       <<"Humidity: ">> \o Fmt(data.main.v) \o <<"%">>,
       <<"Pressure: ">> \o Fmt(data.main.v) \o <<" hPa">>,
       <<"Wind Speed: ">> \o Fmt(data.wind.v) \o <<" m/s, Yon: ">>
            \o Fmt(data.wind.v),
       Rule,
       <<"We wish you a good day. ">> \o NowStr(now) >>

\* the twelve lines of the report
ReportLines(city_clean, description, data, now) ==
    << <<"WEATHER REPORT (Daily) - ">> \o NowStr(now),
       Rule,
       <<"City: ">> \o city_clean,
       <<"Condition: ">> \o description,
       <<"Temperature: ">> \o Fmt(data.main.v) \o <<"C">>,
       <<"Feels Like: ">> \o Fmt(data.main.v) \o <<"C">>,
       <<"Minimum / Maximum: ">> \o Fmt(data.main.v) \o <<"C / ">>
            \o Fmt(data.main.v) \o <<"C">>,
       <<"Humidity: ">> \o Fmt(data.main.v) \o <<"%">>,
       <<"Pressure: ">> \o Fmt(data.main.v) \o <<" hPa">>,
       <<"Wind Speed: ">> \o Fmt(data.wind.v) \o <<" m/s, Yon: ">>
            \o Fmt(data.wind.v),
       Rule,
       <<"We wish you a good day.">> >>

RECURSIVE JoinLines(_)
\* "\n".join(lines)
JoinLines(lines) ==
    IF lines = <<>> THEN <<>>
    ELSE IF Len(lines) = 1 THEN lines[1]
    ELSE lines[1] \o <<"LF">> \o JoinLines(Tail(lines))

Raised(exc) == [exc |-> exc, text |-> <<>>]
Returned(text) == [exc |-> NoExc, text |-> text]

\* ReportService.build_daily_report: what it raises or the text it returns
build_daily_report(city_name, data, now) ==
    IF validate_required_fields(data) # NoExc
    THEN Raised(validate_required_fields(data))
    ELSE IF data.weather.desc.present /\ ~data.weather.desc.val.isstr
    THEN Raised(Exc("AttributeError", "object has no attribute 'replace'"))
    ELSE LET description ==
                 sanitize_text(IF data.weather.desc.present
                               THEN data.weather.desc.val.s
                               ELSE <<"Unknown">>)
             city_clean == sanitize_text(city_name)
         IN  Returned(JoinLines(ReportLines(city_clean, description, data, now)))

\* one call with the inputs of this run, at the current clock reading
BuildDailyReportCall ==
    /\ Len(reports) < 2
    /\ reports' = Append(reports, build_daily_report(r_city, r_data, clock))
    /\ r_exc' = build_daily_report(r_city, r_data, clock).exc
    /\ UNCHANGED <<r_city, r_data, clock>>

\* time passes
Tick ==
    /\ clock < MaxClock
    /\ clock' = clock + 1
    /\ UNCHANGED <<r_city, r_data, reports, r_exc>>


ReportIdle ==
    /\ r_city = <<>>
    /\ r_data = Payload(AbsentGroup, AbsentGroup, AbsentWeather)
    /\ clock = 0
    /\ reports = <<>>
    /\ r_exc = NoExc

----------------------------------------------------------------------------
(* EmailService *)

LocalChars == Alnum \cup {"_", ".", "+", "-"}
DomainChars == Alnum \cup {"-"}
TldChars == Alnum \cup {"-", "."}

AllIn(s, lo, hi, S) == \A i \in lo..hi : s[i] \in S

\* ^[local]+@[domain]+\.[tld]+ matched against the whole of s
FullMatch(s) ==
    \E i \in 2..Len(s) : \E j \in (i + 2)..(Len(s) - 1) :
        /\ s[i] = "@"
        /\ s[j] = "."
        /\ AllIn(s, 1, i - 1, LocalChars)
        /\ AllIn(s, i + 1, j - 1, DomainChars)
        /\ AllIn(s, j + 1, Len(s), TldChars)

\* EMAIL_REGEX.match(address): "$" also matches before one final line feed
EmailRegexMatch(s) ==
    \/ FullMatch(s)
    \/ /\ s # <<>>
       /\ s[Len(s)] = "LF"
       /\ FullMatch(SubSeq(s, 1, Len(s) - 1))

validate_email_NoNewlineCheck(address) ==
    IF ~EmailRegexMatch(address)
    THEN Exc("EmailSendError", "Invalid email address format.")
    ELSE NoExc

\* EmailService._validate_email: what it raises, NoExc if nothing
validate_email(address) ==
    IF Contains(address, "LF") \/ Contains(address, "CR")
    THEN Exc("EmailSendError", "Invalid email address (newline not allowed).")
    ELSE IF ~EmailRegexMatch(address)
    THEN Exc("EmailSendError", "Invalid email address format.")
    ELSE NoExc

FromEmail == <<"a", "@", "a", ".", "a">>

NoMessage == [from |-> <<>>, to |-> <<>>, subject |-> <<>>, body |-> <<>>]

\* EmailService._build_message
build_message(to, subject, body) ==
    [from |-> sanitize_header(Str(FromEmail)),
     to |-> sanitize_header(Str(to)),
     subject |-> sanitize_header(Str(subject)),
     body |-> sanitize_body(Str(body))]

\* how one SMTP step can end: it succeeds or raises
\*   disconnected  SMTPConnectError, SMTPServerDisconnected
\*   auth          SMTPAuthenticationError
\*   smtp          any other SMTPException
\*   os            an OSError that is no SMTPException (socket, TLS)
\*   other         an exception that is neither (UnicodeError from a host name
\*                 or a credential that cannot be encoded, RuntimeError)
StepOutcomes == {"ok", "disconnected", "auth", "smtp", "os", "other"}

\* an exception of a step that no except arm of send_report names
Unwrapped == Exc("UnicodeEncodeError", "codec can't encode character")

\* the three outer except arms of send_report
OuterError(outcome) ==
    IF outcome = "disconnected" THEN Exc("EmailSendError", "SMTP connection error.")
    ELSE IF outcome \in {"auth", "smtp"} THEN Exc("EmailSendError", "An SMTP error occurred.")
    ELSE IF outcome = "os"
        THEN Exc("EmailSendError", "Network error occurred during email sending.")
    ELSE Unwrapped

\* send_report up to the SMTP session: validation and message building
SendReportCall(to, subject, body) ==
    /\ e_pc = "idle"
    /\ e_to' = to
    /\ smtp_log' = <<>>
    /\ smtp_results' = <<>>
    /\ e_pending' = NoExc
    /\ IF validate_email(to) # NoExc
       THEN /\ e_pc' = "raised"
            /\ e_exc' = validate_email(to)
            /\ e_msg' = NoMessage
       ELSE /\ e_pc' = "connect"
            /\ e_exc' = NoExc
            /\ e_msg' = build_message(to, subject, body)

\* smtplib.SMTP(host, port, timeout=15): the connection is opened
SmtpConnect(outcome) ==
    /\ e_pc = "connect"
    /\ outcome \in {"ok", "disconnected", "smtp", "os", "other"}
    /\ smtp_log' = Append(smtp_log, "connect")
    /\ smtp_results' = Append(smtp_results, outcome)
    /\ IF outcome = "ok"
       THEN e_pc' = "ehlo" /\ e_exc' = NoExc
       ELSE e_pc' = "raised" /\ e_exc' = OuterError(outcome)
    /\ UNCHANGED <<e_to, e_msg, e_pending>>

\* server.ehlo(); an exception inside the with block leaves it through
\* SMTP.__exit__ (SmtpQuit), e_pending is the error the except arms of
\* send_report make of it
SmtpEhlo(outcome) ==
    /\ e_pc = "ehlo"
    /\ outcome \in {"ok", "disconnected", "smtp", "os", "other"}
    /\ smtp_log' = Append(smtp_log, "ehlo")
    /\ smtp_results' = Append(smtp_results, outcome)
    /\ e_exc' = NoExc
    /\ IF outcome = "ok"
       THEN e_pc' = "starttls" /\ e_pending' = NoExc
       ELSE e_pc' = "quit" /\ e_pending' = OuterError(outcome)
    /\ UNCHANGED <<e_to, e_msg>>

\* server.starttls(); server.ehlo() and their except arm; smtp_results
\* keeps how each step of smtp_log ended
SmtpStartTls(outcome) ==
    /\ e_pc = "starttls"
    /\ outcome \in {"ok", "disconnected", "smtp", "os", "other"}
    /\ smtp_log' = Append(smtp_log, "starttls")
    /\ smtp_results' = Append(smtp_results, outcome)
    /\ e_exc' = NoExc
    /\ IF outcome = "ok"
       THEN e_pc' = "login" /\ e_pending' = NoExc
       ELSE IF outcome \in {"disconnected", "smtp"}
       THEN e_pc' = "quit" /\ e_pending' = Exc("EmailSendError", "TLS negotiation failed.")
       ELSE e_pc' = "quit" /\ e_pending' = OuterError(outcome)
    /\ UNCHANGED <<e_to, e_msg>>

\* server.login(user, password) and its except arm
SmtpLogin(outcome) ==
    /\ e_pc = "login"
    /\ smtp_log' = Append(smtp_log, "login")
    /\ smtp_results' = Append(smtp_results, outcome)
    /\ e_exc' = NoExc
    /\ IF outcome = "ok"
       THEN e_pc' = "sendmail" /\ e_pending' = NoExc
       ELSE IF outcome = "auth"
       THEN e_pc' = "quit" /\ e_pending' = Exc("EmailSendError", "Invalid SMTP credentials.")
       ELSE e_pc' = "quit" /\ e_pending' = OuterError(outcome)
    /\ UNCHANGED <<e_to, e_msg>>

\* server.sendmail(from, to, msg.as_string()) and its except arm
SmtpSendmail(outcome) ==
    /\ e_pc = "sendmail"
    /\ outcome \in {"ok", "disconnected", "smtp", "os", "other"}
    /\ smtp_log' = Append(smtp_log, "sendmail")
    /\ smtp_results' = Append(smtp_results, outcome)
    /\ e_exc' = NoExc
    /\ e_pc' = "quit"
    /\ e_pending' = IF outcome = "ok" THEN NoExc
                    ELSE Exc("EmailSendError", "Failed to send email.")
    /\ UNCHANGED <<e_to, e_msg>>

\* after SMTPServerDisconnected smtplib has closed the socket, and the QUIT
\* of __exit__ raises it again without sending anything; ehlo() raises
\* another SMTPException only for a reply it cannot read, and the socket is
\* closed then too
QuitPossible(log, results, outcome) ==
    (\/ results[Len(results)] = "disconnected"
     \/ log[Len(log)] = "ehlo" /\ results[Len(results)] = "smtp")
        => outcome = "disconnected"

\* leaving the with block, with or without an exception in flight:
\* SMTP.__exit__ sends QUIT; a lost connection is ignored there; a reply other
\* than 221 raises SMTPResponseException, which replaces the exception in
\* flight and meets the except smtplib.SMTPException arm
SmtpQuit(outcome) ==
    /\ e_pc = "quit"
    /\ outcome \in {"ok", "disconnected", "smtp"}
    /\ QuitPossible(smtp_log, smtp_results, outcome)
    /\ smtp_log' = Append(smtp_log, "quit")
    /\ smtp_results' = Append(smtp_results, outcome)
    /\ e_pending' = NoExc
    /\ IF outcome = "smtp"
       THEN e_pc' = "raised" /\ e_exc' = OuterError(outcome)
       ELSE IF e_pending = NoExc
       THEN e_pc' = "returned" /\ e_exc' = NoExc
       ELSE e_pc' = "raised" /\ e_exc' = e_pending
    /\ UNCHANGED <<e_to, e_msg>>

EmailIdle ==
    /\ e_pc = "idle"
    /\ e_to = <<>>
    /\ e_msg = NoMessage
    /\ smtp_log = <<>>
    /\ smtp_results = <<>>
    /\ e_exc = NoExc
    /\ e_pending = NoExc


----------------------------------------------------------------------------
(* CityService.prompt_user_for_city and app._prompt_email *)

Cities ==
    << [id |-> 1, name |-> <<"a">>, query |-> <<"a">>],
       [id |-> 2, name |-> <<"a", "SP", "a">>, query |-> <<"a", ",", "a">>] >>

NoCity == [id |-> 0, name |-> <<>>, query |-> <<>>]

\* what input() gives: a line, or EOFError, or KeyboardInterrupt
Line(text) == [kind |-> "line", text |-> text]
EndOfInput == [kind |-> "EOFError", text |-> <<>>]
Interrupt == [kind |-> "KeyboardInterrupt", text |-> <<>>]
\* nothing read yet
NoInput == [kind |-> "none", text |-> <<>>]


\* the characters str.isdigit() is True for: the ASCII digits, a decimal
\* digit of another script ("AR2", ARABIC-INDIC DIGIT TWO) and a digit that
\* is no decimal ("SUP2", SUPERSCRIPT TWO)
Digits == {"0", "1", "2", "AR2", "SUP2"}
\* the digits int() reads
DecimalDigits == {"0", "1", "2", "AR2"}
DigitValue(ch) == IF ch = "0" THEN 0 ELSE IF ch = "1" THEN 1 ELSE 2

\* str.lower(), one character
Capitals == {"Q", "U", "I", "T", "E", "X"}
LowerChar(ch) ==
    IF ch \notin Capitals THEN ch
    ELSE IF ch = "Q" THEN "q" ELSE IF ch = "U" THEN "u" ELSE IF ch = "I" THEN "i"
    ELSE IF ch = "T" THEN "t" ELSE IF ch = "E" THEN "e" ELSE "x"
Lower(s) == [i \in 1..Len(s) |-> LowerChar(s[i])]

\* str.isdigit()
IsDigit(s) == s # <<>> /\ \A i \in 1..Len(s) : s[i] \in Digits

\* sys.get_int_max_str_digits(): the longest digit string int() converts
IntMaxStrDigits == 4300

\* whether int(raw) returns: it raises ValueError on a digit that is no
\* decimal and on more than IntMaxStrDigits digits
IntParses(s) ==
    /\ Len(s) <= IntMaxStrDigits
    /\ \A i \in 1..Len(s) : s[i] \in DecimalDigits

RECURSIVE IntOf(_)
\* int(raw) of a string of decimal digits
IntOf(s) ==
    IF s = <<>> THEN 0
    ELSE 10 * IntOf(SubSeq(s, 1, Len(s) - 1)) + DigitValue(s[Len(s)])

QuitWords == {<<"q">>, <<"q", "u", "i", "t">>, <<"e", "x", "i", "t">>}

\* CityService.get_city_by_id: the index into Cities, 0 for None
get_city_by_id(city_id) ==
    IF \E i \in 1..Len(Cities) : Cities[i].id = city_id
    THEN CHOOSE i \in 1..Len(Cities) :
            /\ Cities[i].id = city_id
            /\ \A j \in 1..(i - 1) : Cities[j].id # city_id
    ELSE 0

CityPromptResult_OnlyQ(inp) ==
    IF inp.kind # "line" THEN [r |-> "exit", code |-> 1, city |-> NoCity]
    ELSE LET raw == Strip(inp.text) IN
        IF Lower(raw) = <<"q">> THEN [r |-> "exit", code |-> 0, city |-> NoCity]
        ELSE IF ~IsDigit(raw) THEN [r |-> "again", code |-> 0, city |-> NoCity]
        ELSE IF ~IntParses(raw) THEN [r |-> "error", code |-> 0, city |-> NoCity]
        ELSE IF IntOf(raw) <= 0 THEN [r |-> "again", code |-> 0, city |-> NoCity]
        ELSE IF get_city_by_id(IntOf(raw)) = 0
            THEN [r |-> "again", code |-> 0, city |-> NoCity]
        ELSE [r |-> "city", code |-> 0, city |-> Cities[get_city_by_id(IntOf(raw))]]

\* one pass of the loop of prompt_user_for_city on one input:
\* "exit" (SystemExit), "again" (the loop goes on), "error" (int(raw) raises
\* ValueError, which nothing in the prompt catches) or "city"
CityPromptResult(inp) ==
    IF inp.kind # "line" THEN [r |-> "exit", code |-> 1, city |-> NoCity]
    ELSE LET raw == Strip(inp.text) IN
        IF Lower(raw) \in QuitWords THEN [r |-> "exit", code |-> 0, city |-> NoCity]
        ELSE IF ~IsDigit(raw) THEN [r |-> "again", code |-> 0, city |-> NoCity]
        ELSE IF ~IntParses(raw) THEN [r |-> "error", code |-> 0, city |-> NoCity]
        ELSE IF IntOf(raw) <= 0 THEN [r |-> "again", code |-> 0, city |-> NoCity]
        ELSE IF get_city_by_id(IntOf(raw)) = 0
            THEN [r |-> "again", code |-> 0, city |-> NoCity]
        ELSE [r |-> "city", code |-> 0, city |-> Cities[get_city_by_id(IntOf(raw))]]

\* one pass of the loop of _prompt_email on one input:
\* "again" (the loop goes on), "address", or "interrupt" (KeyboardInterrupt
\* is not caught there)
EmailPromptResult(inp) ==
    IF inp.kind = "EOFError" THEN [r |-> "again", address |-> <<>>]
    ELSE IF inp.kind = "KeyboardInterrupt" THEN [r |-> "interrupt", address |-> <<>>]
    ELSE LET raw == Strip(inp.text) IN
        IF raw = <<>> THEN [r |-> "again", address |-> <<>>]
        ELSE IF Contains(raw, "LF") \/ Contains(raw, "CR")
            THEN [r |-> "again", address |-> <<>>]
        ELSE IF ~Contains(raw, "@") \/ ~Contains(raw, ".")
            THEN [r |-> "again", address |-> <<>>]
        ELSE [r |-> "address", address |-> raw]

CityInputs ==
    { Line(<<"1">>), Line(<<"SP", "2">>), Line(<<"0">>), Line(<<"1", "2">>),
      Line(<<"x">>), Line(<<>>), Line(<<"q">>), Line(<<"Q">>),
      Line(<<"q", "u", "i", "t">>), Line(<<"e", "x", "i", "t">>),
      Line(<<"Q", "U", "I", "T">>), Line(<<"E", "x", "i", "t">>),
      Line(<<"AR2">>), Line(<<"SUP2">>), Line(<<"1", "SUP2">>),
      Line([i \in 1..(IntMaxStrDigits + 1) |-> "1"]),
      EndOfInput, Interrupt }

EmailInputs ==
    { Line(<<"a", "@", "a", ".", "a">>), Line(<<"SP", "a", "@", "a", ".", "a">>),
      Line(<<"@", ".">>), Line(<<"a", "CR", "@", ".">>), Line(<<"a">>),
      Line(<<"SP">>), EndOfInput, Interrupt }


----------------------------------------------------------------------------
(* app.main and app.run *)

NothingPrinted == [text |-> "none", detail |-> "none"]

UserMessage_GenericShowsDetail(exc) ==
    IF exc.kind = "WeatherApiError"
        THEN [text |-> "[ERROR] Could not fetch weather data: ", detail |-> exc.msg]
    ELSE IF exc.kind = "DatabaseError"
        THEN [text |-> "[ERROR] Could not save data to database: ", detail |-> exc.msg]
    ELSE IF exc.kind = "EmailSendError"
        THEN [text |-> "[ERROR] Could not send email: ", detail |-> exc.msg]
    ELSE IF exc.kind = "SystemExit" THEN NothingPrinted
    ELSE [text |-> "[ERROR] An unexpected error occurred. See logs for details.",
          detail |-> exc.msg]

\* the except arms of run: what the user is shown for an exception
UserMessage(exc) ==
    IF exc.kind = "WeatherApiError"
        THEN [text |-> "[ERROR] Could not fetch weather data: ", detail |-> exc.msg]
    ELSE IF exc.kind = "DatabaseError"
        THEN [text |-> "[ERROR] Could not save data to database: ", detail |-> exc.msg]
    ELSE IF exc.kind = "EmailSendError"
        THEN [text |-> "[ERROR] Could not send email: ", detail |-> exc.msg]
    ELSE IF exc.kind = "SystemExit" THEN NothingPrinted
    ELSE [text |-> "[ERROR] An unexpected error occurred. See logs for details.",
          detail |-> "none"]

\* the exceptions that are no Exception: "except Exception" lets them pass
BaseOnly == {"KeyboardInterrupt"}

MainStart ==
    /\ m_pc = "construct"
    /\ city = NoCity
    /\ to_email = <<>>
    /\ weather_data = Payload(AbsentGroup, AbsentGroup, AbsentWeather)
    /\ report_text = <<>>
    /\ stages = <<>>
    /\ m_exc = NoExc
    /\ printed = NothingPrinted
    /\ last_input = NoInput

ConstructOutcomes == {"ok", "config", "cities", "database"}

\* the five constructors at the top of main
MainConstruct(outcome) ==
    /\ m_pc = "construct"
    /\ IF outcome = "ok" THEN m_pc' = "city" /\ m_exc' = NoExc
       ELSE /\ m_pc' = "raised"
            /\ m_exc' = IF outcome = "config"
                            THEN Exc("ValueError", "Environment variable is required but missing.")
                        ELSE IF outcome = "cities"
                            THEN Exc("FileNotFoundError", "city file")
                        ELSE Exc("DatabaseError", "Database connection failed.")
    /\ UNCHANGED <<city, to_email, weather_data, report_text, stages, printed,
                 last_input>>

\* 1) city_service.prompt_user_for_city(), one input at a time
MainPromptCity(inp) ==
    /\ m_pc = "city"
    /\ last_input' = inp
    /\ LET res == CityPromptResult(inp) IN
       /\ m_pc' = IF res.r = "city" THEN "email"
                  ELSE IF res.r \in {"exit", "error"} THEN "raised" ELSE "city"
       /\ city' = res.city
       /\ m_exc' = IF res.r = "exit"
                   THEN Exc("SystemExit", IF res.code = 0 THEN "0" ELSE "1")
                   ELSE IF res.r = "error"
                   THEN Exc("ValueError", "invalid literal for int() with base 10")
                   ELSE m_exc
    /\ UNCHANGED <<to_email, weather_data, report_text, stages, printed>>

\* 2) _prompt_email(), one input at a time
MainPromptEmail(inp) ==
    /\ m_pc = "email"
    /\ last_input' = inp
    /\ LET res == EmailPromptResult(inp) IN
       /\ m_pc' = IF res.r = "address" THEN "fetch"
                  ELSE IF res.r = "interrupt" THEN "raised" ELSE "email"
       /\ to_email' = res.address
       /\ m_exc' = IF res.r = "interrupt"
                   THEN Exc("KeyboardInterrupt", "none") ELSE m_exc
    /\ UNCHANGED <<city, weather_data, report_text, stages, printed>>

\* 3) weather_service.get_current_weather(city.query): the call
MainFetch ==
    /\ m_pc = "fetch"
    /\ GetCurrentWeatherCall(city.query)
    /\ stages' = Append(stages, "fetch")
    /\ m_pc' = IF w_pc' = "raised" THEN "raised" ELSE "fetching"
    /\ m_exc' = IF w_pc' = "raised" THEN w_exc' ELSE m_exc
    /\ UNCHANGED <<city, to_email, weather_data, report_text, printed,
                 last_input>>

\* 3) one attempt of the call; its return value or its exception reach main
MainFetchAttempt(resp) ==
    /\ m_pc = "fetching"
    /\ FetchAttempt(resp)
    /\ m_pc' = IF w_pc' = "returned" THEN "save"
               ELSE IF w_pc' = "raised" THEN "raised" ELSE "fetching"
    /\ weather_data' = IF w_pc' = "returned" THEN w_result' ELSE weather_data
    /\ m_exc' = IF w_pc' = "raised" THEN w_exc' ELSE m_exc
    /\ UNCHANGED <<city, to_email, report_text, stages, printed, last_input>>

\* 4) db_service.save_weather_report(city.name, weather_data)
MainSave(outcome) ==
    /\ m_pc = "save"
    /\ SaveFirstInsert(city.name, Dict(weather_data), outcome)
    /\ stages' = Append(stages, "save")
    /\ m_pc' = IF d_pc' = "returned" THEN "format"
               ELSE IF d_pc' = "raised" THEN "raised" ELSE "saving"
    /\ m_exc' = IF d_pc' = "raised" THEN d_exc' ELSE m_exc
    /\ UNCHANGED <<city, to_email, weather_data, report_text, printed,
                 last_input>>

MainSaveRetry_Swallow(outcome) ==
    /\ m_pc = "saving"
    /\ SaveRetryInsert(outcome)
    /\ m_pc' = "format"
    /\ m_exc' = m_exc
    /\ UNCHANGED <<city, to_email, weather_data, report_text, stages, printed,
                 last_input>>

\* 4) the retry inside save_weather_report
MainSaveRetry(outcome) ==
    /\ m_pc = "saving"
    /\ SaveRetryInsert(outcome)
    /\ m_pc' = IF d_pc' = "returned" THEN "format" ELSE "raised"
    /\ m_exc' = IF d_pc' = "raised" THEN d_exc' ELSE m_exc
    /\ UNCHANGED <<city, to_email, weather_data, report_text, stages, printed,
                 last_input>>

MainFormat_SendAnyway ==
    /\ m_pc = "format"
    /\ stages' = Append(stages, "format")
    /\ LET res == build_daily_report(city.name, weather_data, clock) IN
       /\ report_text' = res.text
       /\ r_exc' = res.exc
       /\ m_pc' = "send"
       /\ m_exc' = m_exc
    /\ UNCHANGED <<city, to_email, weather_data, printed, last_input>>

\* 5) report_service.build_daily_report(city.name, weather_data)
MainFormat ==
    /\ m_pc = "format"
    /\ stages' = Append(stages, "format")
    /\ LET res == build_daily_report(city.name, weather_data, clock) IN
       /\ report_text' = res.text
       /\ r_exc' = res.exc
       /\ m_pc' = IF res.exc = NoExc THEN "send" ELSE "raised"
       /\ m_exc' = IF res.exc = NoExc THEN m_exc ELSE res.exc
    /\ UNCHANGED <<city, to_email, weather_data, printed, last_input>>

Subject(c) == c.name \o <<" Daily Weather Report">>

\* 6) email_service.send_report(to_email, subject, report_text): the call
MainSend ==
    /\ m_pc = "send"
    /\ SendReportCall(to_email, Subject(city), report_text)
    /\ stages' = Append(stages, "send")
    /\ m_pc' = IF e_pc' = "raised" THEN "raised" ELSE "sending"
    /\ m_exc' = IF e_pc' = "raised" THEN e_exc' ELSE m_exc
    /\ UNCHANGED <<city, to_email, weather_data, report_text, printed,
                 last_input>>

\* what a step of the SMTP session means for main: on return the success
\* line is printed and main ends
AfterSmtpStep ==
    /\ m_pc' = IF e_pc' = "returned" THEN "done"
               ELSE IF e_pc' = "raised" THEN "raised" ELSE "sending"
    /\ m_exc' = IF e_pc' = "raised" THEN e_exc' ELSE m_exc
    /\ printed' = IF e_pc' = "returned"
                  THEN [text |-> "Report successfully generated and sent via email.",
                        detail |-> "none"]
                  ELSE printed
    /\ UNCHANGED <<city, to_email, weather_data, report_text, stages,
                 last_input>>

\* run: the exception that left main meets the except arms
RunExcept ==
    /\ m_pc = "raised"
    /\ IF m_exc.kind \in BaseOnly
       THEN m_pc' = "uncaught" /\ printed' = printed
       ELSE m_pc' = "handled" /\ printed' = UserMessage(m_exc)
    /\ UNCHANGED <<city, to_email, weather_data, report_text, stages, m_exc,
                 last_input>>


----------------------------------------------------------------------------
(* Spec: one run of app.run *)

SanIdle ==
    /\ san_fn = "none"
    /\ san_in = NonStr
    /\ san_out = <<>>

Init ==
    /\ SanIdle
    /\ max_retries = DefaultMaxRetries
    /\ FetchIdle
    /\ SaveIdle
    /\ ReportIdle
    /\ EmailIdle
    /\ MainStart

Construct ==
    /\ \E outcome \in ConstructOutcomes : MainConstruct(outcome)
    /\ UNCHANGED <<sanVars, fetchVars, saveVars, reportVars, emailVars>>

CityPrompt ==
    /\ \E inp \in CityInputs : MainPromptCity(inp)
    /\ UNCHANGED <<sanVars, fetchVars, saveVars, reportVars, emailVars>>

EmailPrompt ==
    /\ \E inp \in EmailInputs : MainPromptEmail(inp)
    /\ UNCHANGED <<sanVars, fetchVars, saveVars, reportVars, emailVars>>

Fetch ==
    /\ MainFetch
    /\ UNCHANGED <<sanVars, saveVars, reportVars, emailVars>>

FetchStep ==
    /\ \E resp \in Responses : MainFetchAttempt(resp)
    /\ UNCHANGED <<sanVars, saveVars, reportVars, emailVars>>

Save ==
    /\ \E outcome \in InsertOutcomes : MainSave(outcome)
    /\ UNCHANGED <<sanVars, fetchVars, reportVars, emailVars>>

SaveRetry ==
    /\ \E outcome \in InsertOutcomes : MainSaveRetry(outcome)
    /\ UNCHANGED <<sanVars, fetchVars, reportVars, emailVars>>

Format ==
    /\ MainFormat
    /\ UNCHANGED <<sanVars, fetchVars, saveVars, emailVars>>
    /\ UNCHANGED <<r_city, r_data, clock, reports>>

Send ==
    /\ MainSend
    /\ UNCHANGED <<sanVars, fetchVars, saveVars, reportVars>>

SendConnect ==
    /\ m_pc = "sending"
    /\ \E outcome \in StepOutcomes : SmtpConnect(outcome)
    /\ AfterSmtpStep
    /\ UNCHANGED <<sanVars, fetchVars, saveVars, reportVars>>

SendEhlo ==
    /\ m_pc = "sending"
    /\ \E outcome \in StepOutcomes : SmtpEhlo(outcome)
    /\ AfterSmtpStep
    /\ UNCHANGED <<sanVars, fetchVars, saveVars, reportVars>>

SendStartTls ==
    /\ m_pc = "sending"
    /\ \E outcome \in StepOutcomes : SmtpStartTls(outcome)
    /\ AfterSmtpStep
    /\ UNCHANGED <<sanVars, fetchVars, saveVars, reportVars>>

SendLogin ==
    /\ m_pc = "sending"
    /\ \E outcome \in StepOutcomes : SmtpLogin(outcome)
    /\ AfterSmtpStep
    /\ UNCHANGED <<sanVars, fetchVars, saveVars, reportVars>>

SendSendmail ==
    /\ m_pc = "sending"
    /\ \E outcome \in StepOutcomes : SmtpSendmail(outcome)
    /\ AfterSmtpStep
    /\ UNCHANGED <<sanVars, fetchVars, saveVars, reportVars>>

SendQuit ==
    /\ m_pc = "sending"
    /\ \E outcome \in StepOutcomes : SmtpQuit(outcome)
    /\ AfterSmtpStep
    /\ UNCHANGED <<sanVars, fetchVars, saveVars, reportVars>>

RunHandler ==
    /\ RunExcept
    /\ UNCHANGED <<sanVars, fetchVars, saveVars, reportVars, emailVars>>

Next ==
    \/ Construct \/ CityPrompt \/ EmailPrompt
    \/ Fetch \/ FetchStep
    \/ Save \/ SaveRetry
    \/ Format
    \/ Send \/ SendConnect \/ SendEhlo \/ SendStartTls \/ SendLogin
    \/ SendSendmail \/ SendQuit
    \/ RunHandler

Spec == Init /\ [][Next]_vars

----------------------------------------------------------------------------
(* SpecFetch: one call of get_current_weather, for every max_retries *)

InitFetch ==
    /\ SanIdle
    /\ max_retries \in 0..MaxRetries
    /\ FetchIdle
    /\ SaveIdle
    /\ ReportIdle
    /\ EmailIdle
    /\ MainStart

FetchCall ==
    /\ \E q \in Queries : GetCurrentWeatherCall(q)
    /\ UNCHANGED <<sanVars, saveVars, reportVars, emailVars, mainVars>>

FetchLoop ==
    /\ \E resp \in Responses : FetchAttempt(resp)
    /\ UNCHANGED <<sanVars, saveVars, reportVars, emailVars, mainVars>>

NextFetch == FetchCall \/ FetchLoop

SpecFetch == InitFetch /\ [][NextFetch]_vars

----------------------------------------------------------------------------
(* SpecSave: calls of save_weather_report on one store *)

SaveCities == {<<"a">>, <<"a", "SP", "a">>}
SaveData == {Dict(p) : p \in FetchPayloads} \cup {NonDict}

SaveCall ==
    /\ d_pc \in {"idle", "returned", "raised"}
    /\ \E c \in SaveCities : \E raw \in SaveData : \E outcome \in InsertOutcomes :
          SaveFirstInsert(c, raw, outcome)
    /\ UNCHANGED <<sanVars, fetchVars, reportVars, emailVars, mainVars>>

SaveAgain ==
    /\ \E outcome \in InsertOutcomes : SaveRetryInsert(outcome)
    /\ UNCHANGED <<sanVars, fetchVars, reportVars, emailVars, mainVars>>

NextSave == SaveCall \/ SaveAgain

SpecSave == Init /\ [][NextSave]_vars

----------------------------------------------------------------------------
(* SpecReport: build_daily_report called twice on one city and payload *)

ReportCities == {<<"a">>, <<"SP", "a", "LF", "a">>}

ReportMains == {AbsentGroup, NullGroup} \cup {Group(ks, 20) : ks \in SUBSET MainKeys}
ReportWinds == {AbsentGroup, NullGroup} \cup {Group(ks, 3) : ks \in SUBSET WindKeys}
ReportWeathers ==
    {AbsentWeather, NullWeather, EmptyWeather, ScalarWeather,
     EntryWeather(NoDesc), EntryWeather(Desc(NonStr)),
     EntryWeather(ClearSky), EntryWeather(Desc(Str(<<"a", "CR", "LF", "a">>)))}

ReportPayloads ==
    {Payload(m, wi, we) : m \in ReportMains, wi \in ReportWinds, we \in ReportWeathers}

InitReport ==
    /\ SanIdle
    /\ max_retries = DefaultMaxRetries
    /\ FetchIdle
    /\ SaveIdle
    /\ r_city \in ReportCities
    /\ r_data \in ReportPayloads
    /\ clock = 0
    /\ reports = <<>>
    /\ r_exc = NoExc
    /\ EmailIdle
    /\ MainStart

ReportBuild ==
    /\ BuildDailyReportCall
    /\ UNCHANGED <<sanVars, fetchVars, saveVars, emailVars, mainVars>>

ReportTick ==
    /\ Tick
    /\ UNCHANGED <<sanVars, fetchVars, saveVars, emailVars, mainVars>>

NextReport == ReportBuild \/ ReportTick

SpecReport == InitReport /\ [][NextReport]_vars

----------------------------------------------------------------------------
(* SpecEmail: one call of send_report, for every recipient address *)

AddressChars == {"a", "@", ".", "SP", "LF", "CR"}
Addresses == SeqsUpTo(AddressChars, MaxAddrLen)

EmailCall ==
    /\ e_pc = "idle"
    /\ \E to \in Addresses :
          SendReportCall(to, <<"a", "LF", "a">>, <<"a", "CR", "LF", "a">>)
    /\ UNCHANGED <<sanVars, fetchVars, saveVars, reportVars, mainVars>>

EmailConnect ==
    /\ \E outcome \in StepOutcomes : SmtpConnect(outcome)
    /\ UNCHANGED <<sanVars, fetchVars, saveVars, reportVars, mainVars>>

EmailEhlo ==
    /\ \E outcome \in StepOutcomes : SmtpEhlo(outcome)
    /\ UNCHANGED <<sanVars, fetchVars, saveVars, reportVars, mainVars>>

EmailStartTls ==
    /\ \E outcome \in StepOutcomes : SmtpStartTls(outcome)
    /\ UNCHANGED <<sanVars, fetchVars, saveVars, reportVars, mainVars>>

EmailLogin ==
    /\ \E outcome \in StepOutcomes : SmtpLogin(outcome)
    /\ UNCHANGED <<sanVars, fetchVars, saveVars, reportVars, mainVars>>

EmailSendmail ==
    /\ \E outcome \in StepOutcomes : SmtpSendmail(outcome)
    /\ UNCHANGED <<sanVars, fetchVars, saveVars, reportVars, mainVars>>

EmailQuit ==
    /\ \E outcome \in StepOutcomes : SmtpQuit(outcome)
    /\ UNCHANGED <<sanVars, fetchVars, saveVars, reportVars, mainVars>>

NextEmail ==
    \/ EmailCall \/ EmailConnect \/ EmailEhlo \/ EmailStartTls
    \/ EmailLogin \/ EmailSendmail \/ EmailQuit

SpecEmail == Init /\ [][NextEmail]_vars

----------------------------------------------------------------------------
(* SpecSanitize: each sanitizer applied to every text *)

TextChars == {"a", "SP", "LF", "CR", "-", "!"}
Texts == SeqsUpTo(TextChars, MaxTextLen)

InitSanitize ==
    /\ san_fn = "none"
    /\ san_in \in {Str(s) : s \in Texts} \cup {NonStr}
    /\ san_out = <<>>
    /\ max_retries = DefaultMaxRetries
    /\ FetchIdle
    /\ SaveIdle
    /\ ReportIdle
    /\ EmailIdle
    /\ MainStart

\* sanitize_query(query) for a str (another value has no replace method:
\* the call raises and gives no output)
SanitizeQuery ==
    /\ san_fn = "none"
    /\ san_in.isstr
    /\ san_fn' = "sanitize_query"
    /\ san_out' = sanitize_query(san_in.s)
    /\ UNCHANGED <<san_in, fetchVars, saveVars, reportVars, emailVars, mainVars>>

\* _sanitize_text(text) for a str
SanitizeText ==
    /\ san_fn = "none"
    /\ san_in.isstr
    /\ san_fn' = "_sanitize_text"
    /\ san_out' = sanitize_text(san_in.s)
    /\ UNCHANGED <<san_in, fetchVars, saveVars, reportVars, emailVars, mainVars>>

\* _sanitize_header(value) for any value
SanitizeHeader ==
    /\ san_fn = "none"
    /\ san_fn' = "_sanitize_header"
    /\ san_out' = sanitize_header(san_in)
    /\ UNCHANGED <<san_in, fetchVars, saveVars, reportVars, emailVars, mainVars>>

NextSanitize == SanitizeQuery \/ SanitizeText \/ SanitizeHeader

SpecSanitize == InitSanitize /\ [][NextSanitize]_vars


----------------------------------------------------------------------------
(* The claims about the weather fetcher, under SpecFetch *)

\* a response that is no valid answer: a transport exception, an HTTP error
\* (status 400 to 599), a body that is no JSON object, or an object without
\* main or weather
HttpError(resp) == ~resp.raised /\ resp.status \in 400..599

FailingResponse(resp) ==
    \/ resp.raised
    \/ HttpError(resp)
    \/ resp.body.t # "obj"
    \/ resp.body.data.main.t = "absent"
    \/ resp.body.data.weather.t = "absent"

\* an HTTP-ok response whose body is no JSON object with main and weather
MalformedBody(resp) ==
    /\ ~resp.raised
    /\ ~HttpError(resp)
    /\ \/ resp.body.t # "obj"
       \/ resp.body.data.main.t = "absent"
       \/ resp.body.data.weather.t = "absent"

AllFailing == \A i \in 1..Len(requests) : FailingResponse(requests[i])

\* C1: with max_retries N >= 1 and every attempt failing, the call goes on
\* while fewer than N requests were made, never makes more than N, and after
\* the N-th it has failed with WeatherApiError.
C1_AllFailingMakesExactlyMaxRetries ==
    (max_retries >= 1 /\ w_pc # "idle" /\ AllFailing) =>
        /\ Len(requests) <= max_retries
        /\ (Len(requests) < max_retries <=> w_pc = "loop")
        /\ (Len(requests) = max_retries =>
                w_pc = "raised" /\ w_exc.kind = "WeatherApiError")

C1_Witness ==
    /\ max_retries = 3
    /\ w_pc = "raised"
    /\ w_exc.kind = "WeatherApiError"
    /\ Len(requests) = 3
    /\ requests[1].raised
    /\ requests[2].status = 404
    /\ requests[3] = Response(200, NonJsonBody)

\* C2: when the first valid response is the k-th and the earlier ones are
\* failures, the call has made exactly k requests and has returned the body
\* of the k-th as it came.
C2_FirstValidResponseReturned ==
    \A k \in 1..Len(requests) :
        (/\ ~FailingResponse(requests[k])
         /\ \A j \in 1..(k - 1) : FailingResponse(requests[j])) =>
            /\ Len(requests) = k
            /\ k <= max_retries
            /\ w_pc = "returned"
            /\ w_result = requests[k].body.data

C2_Witness ==
    /\ w_pc = "returned"
    /\ Len(requests) = 3
    /\ requests[1].status = 500
    /\ requests[2].status = 500
    /\ requests[3].body.data.wind.t = "absent"
    /\ w_result = requests[3].body.data

\* C3: a returned payload is a JSON object with main and weather; an HTTP-ok
\* response without them is a failed attempt: before the last attempt the
\* loop goes on to the next one, on the last the call fails with
\* WeatherApiError.
C3_MalformedBodyNeverReturned ==
    /\ w_pc = "returned" =>
          /\ ~MalformedBody(requests[Len(requests)])
          /\ w_result.main.t # "absent"
          /\ w_result.weather.t # "absent"
    /\ \A i \in 1..Len(requests) :
          MalformedBody(requests[i]) =>
              IF i < max_retries
              THEN i = Len(requests) => (w_pc = "loop" /\ attempt = i + 1)
              ELSE w_pc = "raised" /\ w_exc.kind = "WeatherApiError"

C3_Witness ==
    /\ max_retries = 3
    /\ Len(requests) = 3
    /\ requests[3].body.t = "obj"
    /\ requests[3].body.data.main.t # "absent"
    /\ MalformedBody(requests[3])
    /\ w_pc = "raised"

----------------------------------------------------------------------------
(* The claim about the persistence writer, under SpecSave *)

\* C4: a call whose first insert failed with a transient disconnect and
\* whose second insert succeeded has returned without raising, and the store
\* holds exactly one document more than before the call.
C4_RetryStoresExactlyOne ==
    (/\ Len(inserts) = 2
     /\ inserts[1].kind = "AutoReconnect"
     /\ inserts[2].kind = "ok") =>
        /\ d_pc = "returned"
        /\ d_exc = NoExc
        /\ store_before \subseteq store
        /\ Cardinality(store \ store_before) = 1

C4_Witness ==
    /\ Len(inserts) = 2
    /\ inserts[1].kind = "AutoReconnect"
    /\ inserts[2].kind = "ok"
    /\ store_before # {}
    /\ d_pc = "returned"

----------------------------------------------------------------------------
(* The claims about the report formatter, under SpecReport *)

HasAll(group, ks) == group.t = "obj" /\ ks \subseteq group.keys

\* the payload lacks main, a sub-field of main, wind, wind.speed or wind.deg,
\* or its weather is no non-empty list with a structured first entry
LacksRequired(data) ==
    \/ ~HasAll(data.main, MainKeys)
    \/ ~HasAll(data.wind, WindKeys)
    \/ ~(data.weather.t = "list" /\ data.weather.first = "dict")

\* C5: for a payload that lacks a required field, build_daily_report raises
\* KeyError and returns no report.
C5_IncompleteRaisesKeyError ==
    \A i \in 1..Len(reports) :
        LacksRequired(r_data) =>
            reports[i].exc.kind = "KeyError" /\ reports[i].text = <<>>

RECURSIVE AfterHeader(_)
\* the text after its first line
AfterHeader(text) ==
    IF text = <<>> THEN <<>>
    ELSE IF Head(text) = "LF" THEN Tail(text)
    ELSE AfterHeader(Tail(text))

RECURSIVE HeaderOf(_)
\* the first line of the text
HeaderOf(text) ==
    IF text = <<>> \/ Head(text) = "LF" THEN <<>>
    ELSE <<Head(text)>> \o HeaderOf(Tail(text))

\* C8: two calls with the same city and payload raise the same or return
\* texts that agree in every line after the header line, whatever the time
\* of each call; the header lines agree up to the time they show.
C8_SameInputsSameReportButHeader ==
    \A i, j \in 1..Len(reports) :
        /\ reports[i].exc = reports[j].exc
        /\ AfterHeader(reports[i].text) = AfterHeader(reports[j].text)
        /\ Len(HeaderOf(reports[i].text)) = Len(HeaderOf(reports[j].text))
        /\ reports[i].exc = NoExc =>
              /\ Len(HeaderOf(reports[i].text)) = 2
              /\ HeaderOf(reports[i].text)[1] = HeaderOf(reports[j].text)[1]

C8_Witness ==
    /\ Len(reports) = 2
    /\ reports[1].exc = NoExc
    /\ reports[1].text # reports[2].text
    /\ AfterHeader(reports[1].text) # <<>>
    /\ HasLineBreak(r_city)

----------------------------------------------------------------------------
(* The claim about the orchestrator, under Spec *)

StageOrder == <<"fetch", "save", "format", "send">>

IsPrefix(s, t) == Len(s) <= Len(t) /\ \A i \in 1..Len(s) : s[i] = t[i]

\* C6: the stages run in the order fetch, save, format, send, each at most
\* once; after a failed stage no later stage has run (nothing stored after a
\* failed fetch, no SMTP activity after a failed save or format), and the
\* exception that left main is the one the failed stage raised.
C6_StagesInOrderFailureStops ==
    /\ IsPrefix(stages, StageOrder)
    /\ w_pc = "raised" =>
          /\ stages = <<"fetch">>
          /\ store = {} /\ inserts = <<>>
          /\ smtp_log = <<>>
          /\ m_exc = w_exc
    /\ d_pc = "raised" =>
          /\ stages = <<"fetch", "save">>
          /\ e_pc = "idle" /\ smtp_log = <<>>
          /\ m_exc = d_exc
    /\ r_exc # NoExc =>
          /\ stages = <<"fetch", "save", "format">>
          /\ e_pc = "idle" /\ smtp_log = <<>>
          /\ m_exc = r_exc
    /\ e_pc = "raised" =>
          /\ stages = StageOrder
          /\ m_exc = e_exc
    /\ m_pc \in {"raised", "handled", "uncaught"} => m_exc # NoExc

C6_Witness ==
    /\ m_pc = "handled"
    /\ d_pc = "raised"
    /\ Len(inserts) = 2
    /\ stages = <<"fetch", "save">>
    /\ m_exc.kind = "DatabaseError"

----------------------------------------------------------------------------
(* The claim about the recipient address, under SpecEmail *)

CountOf(s, c) == Cardinality({i \in 1..Len(s) : s[i] = c})

\* local-part@domain.tld: one "@" after a non-empty local part, a "." inside
\* what follows it with text on both sides, and no whitespace anywhere
HasAddressShape(s) ==
    /\ CountOf(s, "@") = 1
    /\ \A i \in 1..Len(s) : s[i] \notin Whitespace
    /\ \E i \in 2..Len(s) : \E j \in (i + 2)..(Len(s) - 1) :
          s[i] = "@" /\ s[j] = "."

\* C7: for an address with a line break or without the local-part@domain.tld
\* shape, send_report has raised EmailSendError and no SMTP connection was
\* opened, nor any other SMTP step taken.
C7_BadAddressNoNetwork ==
    (e_pc # "idle" /\ (HasLineBreak(e_to) \/ ~HasAddressShape(e_to))) =>
        /\ e_pc = "raised"
        /\ e_exc.kind = "EmailSendError"
        /\ smtp_log = <<>>

C7_Witness ==
    /\ e_pc = "raised"
    /\ Len(e_to) = 6
    /\ e_to[6] = "LF"
    /\ FullMatch(SubSeq(e_to, 1, 5))
    /\ smtp_log = <<>>

----------------------------------------------------------------------------
(* The claim about the sanitizers, under SpecSanitize *)

\* C9: the output of sanitize_query, _sanitize_text and _sanitize_header
\* holds no carriage return and no line feed.
C9_SanitizedHasNoLineBreak ==
    san_fn # "none" => ~HasLineBreak(san_out)

C9_Witness ==
    /\ san_fn = "_sanitize_header"
    /\ san_in.isstr
    /\ san_in.s = <<"a", "CR", "a">>
    /\ san_out = <<"a", "SP", "a">>

----------------------------------------------------------------------------
(* The claim about the user-facing messages, under Spec *)

GenericText == "[ERROR] An unexpected error occurred. See logs for details."

\* WeatherApiError, DatabaseError, EmailSendError, the field-presence error
\* (KeyError) and the configuration error (ValueError)
ErrorKinds == {"WeatherApiError", "DatabaseError", "EmailSendError", "KeyError", "ValueError"}
AppErrorKinds == {"WeatherApiError", "DatabaseError", "EmailSendError"}

SpecificText(kind) ==
    IF kind = "WeatherApiError" THEN "[ERROR] Could not fetch weather data: "
    ELSE IF kind = "DatabaseError" THEN "[ERROR] Could not save data to database: "
    ELSE "[ERROR] Could not send email: "

\* C10 as stated: each of the five error kinds is shown with a specific
\* message of its own, and the generic message is shown only for a failure
\* outside the five kinds.
C10_EachKindOwnMessage ==
    m_pc = "handled" =>
        /\ m_exc.kind \in ErrorKinds =>
              printed.text \notin {GenericText, "none"}
        /\ printed.text = GenericText => m_exc.kind \notin ErrorKinds

\* C10 as amended: WeatherApiError, DatabaseError and EmailSendError are each
\* shown with a specific message of their own, followed by the error's text;
\* every other failure, the field-presence error and the configuration error
\* included, is shown with the generic message and no detail.
C10_ThreeKindsOwnMessage ==
    /\ \A k1, k2 \in AppErrorKinds :
          /\ SpecificText(k1) # GenericText
          /\ k1 # k2 => SpecificText(k1) # SpecificText(k2)
    /\ m_pc = "handled" =>
          IF m_exc.kind \in AppErrorKinds
          THEN printed.text = SpecificText(m_exc.kind) /\ printed.detail = m_exc.msg
          ELSE IF m_exc.kind = "SystemExit" THEN printed = NothingPrinted
          ELSE printed.text = GenericText /\ printed.detail = "none"

C10_Witness ==
    /\ m_pc = "handled"
    /\ m_exc.kind = "KeyError"
    /\ printed.text = GenericText
    /\ store # {}


----------------------------------------------------------------------------
(* The claim about cancelling the city selection, under Spec *)

\* the user cancels: q, quit or exit is entered, or input() is interrupted
\* or at its end
CancelInput(inp) ==
    \/ inp.kind \in {"EOFError", "KeyboardInterrupt"}
    \/ /\ inp.kind = "line"
       /\ inp.text \in {<<"q">>, <<"q", "u", "i", "t">>, <<"e", "x", "i", "t">>,
                        <<"Q">>, <<"Q", "U", "I", "T">>, <<"E", "x", "i", "t">>}

\* C11: once the user has cancelled in the city prompt, the run is over with
\* SystemExit, run has printed nothing, and no fetch, no insert and no SMTP
\* step was made.
C11_CancelIsQuietEarlyExit ==
    (city = NoCity /\ CancelInput(last_input)) =>
        /\ m_pc \in {"raised", "handled"}
        /\ m_exc.kind = "SystemExit"
        /\ printed = NothingPrinted
        /\ stages = <<>>
        /\ w_pc = "idle" /\ requests = <<>>
        /\ d_pc = "idle" /\ inserts = <<>> /\ store = {}
        /\ e_pc = "idle" /\ smtp_log = <<>>

C11_Witness ==
    /\ m_pc = "handled"
    /\ last_input = Line(<<"q", "u", "i", "t">>)
    /\ m_exc = Exc("SystemExit", "0")
    /\ printed = NothingPrinted

----------------------------------------------------------------------------
(* The claim about the single retry of the insert, under SpecSave *)

TransientDisconnect(outcome) == outcome.kind = "AutoReconnect"

\* C12: a call of save_weather_report makes a second insert exactly when the
\* first one failed with a transient disconnect and never a third; a failed
\* retry raises DatabaseError chained from the retry's failure; any other
\* failure of the first insert raises DatabaseError with no second insert.
C12_OneRetryOnDisconnectOnly ==
    /\ Len(inserts) <= 2
    /\ Len(inserts) = 2 => TransientDisconnect(inserts[1])
    /\ (Len(inserts) >= 1 /\ TransientDisconnect(inserts[1])) =>
            \/ d_pc = "retry" /\ Len(inserts) = 1
            \/ d_pc \in {"returned", "raised"} /\ Len(inserts) = 2
    /\ (Len(inserts) = 2 /\ inserts[2].kind # "ok") =>
            /\ d_pc = "raised"
            /\ d_exc = Exc("DatabaseError", "Database insert retry failed.")
            /\ d_cause = inserts[2].kind
    /\ (Len(inserts) >= 1 /\ inserts[1].kind \notin {"ok", "AutoReconnect"}) =>
            /\ d_pc = "raised"
            /\ d_exc.kind = "DatabaseError"
            /\ Len(inserts) = 1

----------------------------------------------------------------------------
(* The claim about HTTP client errors, under SpecFetch *)

ClientError(resp) == ~resp.raised /\ resp.status >= 400 /\ resp.status < 500

ServerError(resp) == ~resp.raised /\ resp.status >= 500 /\ resp.status < 600

\* C13: an attempt answered with a 4xx status is the last request of the
\* call, which has then failed with WeatherApiError; an attempt answered with
\* a 5xx status that is not the last one allowed is followed by another
\* attempt.
C13_ClientErrorIsFatal ==
    \A i \in 1..Len(requests) :
        /\ ClientError(requests[i]) =>
                /\ Len(requests) = i
                /\ w_pc = "raised"
                /\ w_exc.kind = "WeatherApiError"
        /\ (ServerError(requests[i]) /\ i < max_retries /\ Len(requests) = i) =>
                w_pc = "loop" /\ attempt = i + 1

----------------------------------------------------------------------------
(* The claim about the delays between attempts, under SpecFetch *)

\* C14: the i-th delay of a call follows its i-th failed attempt and lasts
\* retry_delay * 2^(i-1), so each delay is twice the one before; a call that
\* has failed slept after every attempt but the last, a call that has
\* returned slept after every attempt but the successful one.
C14_DelaysDoubleNoneAfterLast ==
    /\ Len(sleeps) >= 1 => sleeps[1] = RetryDelay
    /\ \A i \in 1..(Len(sleeps) - 1) : sleeps[i + 1] = 2 * sleeps[i]
    /\ w_pc = "loop" => Len(sleeps) = Len(requests)
    /\ (w_pc = "raised" /\ max_retries >= 1) =>
            Len(requests) = max_retries /\ Len(sleeps) = max_retries - 1
    /\ w_pc = "returned" => Len(sleeps) = Len(requests) - 1

C14_Witness ==
    /\ w_pc = "raised"
    /\ Len(requests) = 4
    /\ sleeps = <<RetryDelay, 2 * RetryDelay, 4 * RetryDelay>>

----------------------------------------------------------------------------
(* The claim about the SMTP session, under SpecEmail *)

IndexOf(seq, x) == CHOOSE i \in 1..Len(seq) : seq[i] = x

\* C15: a call of send_report opens at most one SMTP session, and exactly
\* one once a call with an address that passes validation has ended; sendmail
\* is reached only after starttls and then login have both succeeded; if
\* starttls or login fails, nothing is handed to sendmail, the session is
\* only closed (QUIT) and the call ends with EmailSendError.  (A call rejected by the address validation
\* opens no session at all.)
C15_OneSessionTlsLoginThenSend ==
    /\ CountOf(smtp_log, "connect") <= 1
    /\ CountOf(smtp_log, "sendmail") <= 1
    /\ Len(smtp_results) = Len(smtp_log)
    /\ (e_pc \in {"returned", "raised"} /\ validate_email(e_to) = NoExc) =>
            CountOf(smtp_log, "connect") = 1 /\ smtp_log[1] = "connect"
    /\ CountOf(smtp_log, "sendmail") = 1 =>
            /\ CountOf(smtp_log, "starttls") = 1
            /\ CountOf(smtp_log, "login") = 1
            /\ IndexOf(smtp_log, "starttls") < IndexOf(smtp_log, "login")
            /\ IndexOf(smtp_log, "login") < IndexOf(smtp_log, "sendmail")
            /\ smtp_results[IndexOf(smtp_log, "starttls")] = "ok"
            /\ smtp_results[IndexOf(smtp_log, "login")] = "ok"
    /\ \A i \in 1..Len(smtp_log) :
            (smtp_log[i] \in {"starttls", "login"} /\ smtp_results[i] # "ok") =>
                /\ CountOf(smtp_log, "sendmail") = 0
                /\ e_pc \in {"quit", "raised"}
                /\ e_pc = "quit" => i = Len(smtp_log)
                /\ e_pc = "raised" => e_exc.kind = "EmailSendError"


----------------------------------------------------------------------------
(* The claim about stored payloads and the formatter, under Spec *)

\* C16 as stated: every stored payload passes the formatter's validation,
\* and no run that has stored a document ends with the field-presence error.
C16_StoredPayloadFormats ==
    /\ \A doc \in store : validate_required_fields(doc.raw_data.data) = NoExc
    /\ store # {} => m_exc.kind # "KeyError"

\* C16 amended: every stored payload is a mapping with main and weather, the
\* two keys the fetcher checks; when the formatter rejects the payload of the
\* run, whether or not it was stored, send_report is never called.
C16_StoredHasFetcherKeysFormatFailureStopsRun ==
    /\ \A doc \in store :
            /\ doc.raw_data.isdict
            /\ HasKey(doc.raw_data.data.main)
            /\ HasKey(doc.raw_data.data.weather)
    /\ r_exc # NoExc =>
            /\ m_pc \in {"raised", "handled"}
            /\ m_exc = r_exc
            /\ "send" \notin {stages[i] : i \in 1..Len(stages)}
            /\ e_pc = "idle" /\ smtp_log = <<>>

C16_Witness ==
    /\ m_pc = "handled"
    /\ ~HasKey(weather_data.wind)
    /\ \E doc \in store : doc.raw_data = Dict(weather_data)
    /\ r_exc = Exc("KeyError", "Missing 'wind' section")
    /\ smtp_log = <<>>

----------------------------------------------------------------------------
(* The claims about the email prompt, under Spec *)

\* C17: every address the email prompt has returned passes the notifier's
\* address validation, so no run has fetched and stored a document and then
\* had send_report reject the recipient address.
C17_PromptedAddressIsValid ==
    /\ to_email # <<>> => validate_email(to_email) = NoExc
    /\ ~ /\ store # {}
         /\ e_pc = "raised"
         /\ e_to = to_email
         /\ e_exc = validate_email(to_email)
         /\ e_exc # NoExc

\* C18: a read of end-of-file ends the email prompt, as it ends the city
\* prompt; the prompt is never asking again with its input at end-of-file
\* (where every further read would be end-of-file again).
C18_EmailPromptEndsAtEndOfFile ==
    ~(m_pc = "email" /\ last_input = EndOfInput)

====
